---- MODULE Spec2Model ----
(***************************************************************************)
(* Model of trunner/test_runner.py (TestRunner.flash, run_tests, run and   *)
(* the nested set_reboot_flag) of phoenix-rtos-tests.                      *)
(*                                                                         *)
(* The target (flash_dut, build_test) and the harnesses are external: a    *)
(* harness call is a nondeterministic choice over the outcomes of the      *)
(* harness interface (a TestResult with status OK, FAIL or SKIP, None, or  *)
(* a raised HarnessError); flash_dut either returns or raises FlashError   *)
(* or HarnessError.                                                        *)
(***************************************************************************)
EXTENDS Integers, Sequences, FiniteSets, TLC

\* Longest descriptor list explored.
MaxTests == 3

VARIABLES
    ctx,        \* RunContext: should_flash, should_test, nightly
    tests,      \* the parsed TestOptions, in order (run(): tests = self.parse_tests())
    pc,         \* position of run()/run_tests
    idx,        \* loop index of run_tests (1-based; Python idx + 1)
    result,     \* status of the local `result` of the current iteration
    outcome,    \* what the last harness() call did, "none" before the first (history)
    fail,       \* local counter of run_tests
    skip,       \* local counter of run_tests
    state,      \* per test: PENDING, RUNNING, SKIPPED, PASSED, FAILED (history)
    built,      \* per test: number of target.build_test calls (history)
    invoked,    \* per test: number of harness() calls (history)
    rebooted,   \* indices whose build_test saw should_reboot = True (history)
    wrote,      \* indices whose should_reboot was assigned by set_reboot_flag (history)
    flashed,    \* outcome of target.flash_dut(), "none" before/without the call
    summary,    \* the printed summary line, <<>> before it is printed
    ret,        \* "none", "True", "False" (return value of run), "exit1" (sys.exit(1))
                \* or "ValueError" (raised by search_for_tests)
    msg,        \* message of the local `result` of the current iteration
    test_paths, \* self.test_paths: the input paths, in order
    found,      \* what search_for_tests returned, <<>> before the call
    \* psh/tools/login.py: one call of a login helper on a session p
    helper,     \* the helper called: log_in, assert_login, assert_login_fail, assert_login_empty
    cred,       \* its arguments login and passwd
    lpc,        \* position in the helper
    log,        \* the p.send and p.expect_exact calls made so far, in order (history)
    buffer,     \* output of the session read but not yet consumed by a match
    session,    \* what the session prints during the first, second and third wait
    raised      \* message of the AssertionError raised, "none" without one

discovery_vars == <<test_paths, found>>

login_vars == <<helper, cred, lpc, log, buffer, session, raised>>

runner_vars == <<ctx, tests, pc, idx, result, outcome, fail, skip, state, built, invoked,
                 rebooted, wrote, flashed, summary, ret, msg, discovery_vars>>

vars == <<runner_vars, login_vars>>

----------------------------------------------------------------------------
(* Data *)

Bootloaders == {"None", "apps_empty", "apps_nonempty"}

TestOptions == [ignore : BOOLEAN, should_reboot : BOOLEAN, bootloader : Bootloaders]

RunContext == [should_flash : BOOLEAN, should_test : BOOLEAN, nightly : BOOLEAN]

\* What a harness() call can do.
HarnessOutcomes == {"OK", "FAIL", "SKIP", "None", "HarnessError"}

\* What target.flash_dut() can do.
FlashOutcomes == {"ok", "FlashError", "HarnessError"}

\* TestResult(test.name): a fresh result has status OK.
NewResult == "OK"

is_fail(r) == r = "FAIL"

is_skip(r) == r = "SKIP"

\* tests[idx + 1].bootloader is not None and tests[idx + 1].bootloader.apps
bootloader_apps(t) == t.bootloader # "None" /\ t.bootloader = "apps_nonempty"

----------------------------------------------------------------------------
(* run_tests, line 97: `if test.ignore` *)

ignore_not_honoured(t) == FALSE

ignored(t) == t.ignore

----------------------------------------------------------------------------
(* run_tests, line 93: `for idx, test in enumerate(tests)` *)

next_idx_skips_one(i) == i + 2

next_idx(i) == i + 1

----------------------------------------------------------------------------
(* run(), line 156: `if not self.ctx.should_test: return True` *)

should_test_not_checked(c) == TRUE

testing_requested(c) == c.should_test

----------------------------------------------------------------------------
(* flash(): which outcomes of flash_dut end in sys.exit(1) *)

FlashExitsNever(o) == FALSE

FlashExits(o) == o \in {"FlashError", "HarnessError"}

----------------------------------------------------------------------------
(* run_tests, lines 103-110: the status of `result` after the try block   *)
(* and the None check; "RAISED" when the exception leaves run_tests.       *)

HarnessResultNoCatch(o) ==
    CASE o = "HarnessError" -> "RAISED"
      [] o = "None" -> "OK"
      [] OTHER -> o

\* without the None check of lines 108-110
HarnessResultNoneKept(o) ==
    CASE o = "HarnessError" -> "FAIL"
      [] OTHER -> o

\* `except HarnessError: pass`
HarnessResultSwallowed(o) ==
    CASE o = "HarnessError" -> "OK"
      [] o = "None" -> "OK"
      [] OTHER -> o

HarnessResult(o) ==
    CASE o = "HarnessError" -> "FAIL"
      [] o = "None" -> "OK"
      [] OTHER -> o

----------------------------------------------------------------------------
(* run_tests, lines 94 and 103-110: the message of `result`. A fresh      *)
(* TestResult and the one of line 110 have the empty message; a returned   *)
(* result carries the message its harness gave it (none for OK and SKIP);  *)
(* line 106 stores str(e).                                                 *)

NewMsg == ""

HarnessMsg(o) ==
    CASE o = "HarnessError" -> "str(e)"
      [] o = "FAIL" -> "message of the returned result"
      [] OTHER -> NewMsg

----------------------------------------------------------------------------
(* run_tests, lines 114-117: the counters after one result *)

CountResultSkipAsFail(f, s, r) ==
    IF is_fail(r) \/ is_skip(r) THEN <<f + 1, s>> ELSE <<f, s>>

CountResultNoElif(f, s, r) ==
    IF is_fail(r) THEN <<f + 1, s + 1>>
    ELSE IF is_skip(r) THEN <<f, s + 1>>
    ELSE <<f, s>>

CountResult(f, s, r) ==
    IF is_fail(r) THEN <<f + 1, s>>
    ELSE IF is_skip(r) THEN <<f, s + 1>>
    ELSE <<f, s>>

----------------------------------------------------------------------------
(* set_reboot_flag(tests, idx, result), lines 119-139; i is 1-based *)

SetReboot(ts, i, v) == [ts EXCEPT ![i].should_reboot = v]

\* without `result.is_fail()` in the override
set_reboot_flag_no_fail(ts, i, r, nightly) ==
    IF i = Len(ts) THEN ts
    ELSE LET t1 == SetReboot(ts, i + 1, FALSE)
             t2 == IF is_skip(r) THEN SetReboot(t1, i + 1, t1[i].should_reboot) ELSE t1
         IN  IF nightly \/ bootloader_apps(t2[i + 1])
             THEN SetReboot(t2, i + 1, TRUE)
             ELSE t2

\* without the default of line 129
set_reboot_flag_no_default(ts, i, r, nightly) ==
    IF i = Len(ts) THEN ts
    ELSE LET t2 == IF is_skip(r) THEN SetReboot(ts, i + 1, ts[i].should_reboot) ELSE ts
         IN  IF is_fail(r) \/ nightly \/ bootloader_apps(t2[i + 1])
             THEN SetReboot(t2, i + 1, TRUE)
             ELSE t2

\* without the SKIP propagation of lines 131-132
set_reboot_flag_no_skip(ts, i, r, nightly) ==
    IF i = Len(ts) THEN ts
    ELSE LET t1 == SetReboot(ts, i + 1, FALSE)
         IN  IF is_fail(r) \/ nightly \/ bootloader_apps(t1[i + 1])
             THEN SetReboot(t1, i + 1, TRUE)
             ELSE t1

\* without `self.ctx.nightly` in the override
set_reboot_flag_no_nightly(ts, i, r, nightly) ==
    IF i = Len(ts) THEN ts
    ELSE LET t1 == SetReboot(ts, i + 1, FALSE)
             t2 == IF is_skip(r) THEN SetReboot(t1, i + 1, t1[i].should_reboot) ELSE t1
         IN  IF is_fail(r) \/ bootloader_apps(t2[i + 1])
             THEN SetReboot(t2, i + 1, TRUE)
             ELSE t2

\* the override evaluated before the SKIP propagation instead of after it
set_reboot_flag_skip_last(ts, i, r, nightly) ==
    IF i = Len(ts) THEN ts
    ELSE LET t1 == SetReboot(ts, i + 1, FALSE)
             t2 == IF is_fail(r) \/ nightly \/ bootloader_apps(t1[i + 1])
                   THEN SetReboot(t1, i + 1, TRUE)
                   ELSE t1
         IN  IF is_skip(r) THEN SetReboot(t2, i + 1, t2[i].should_reboot) ELSE t2

set_reboot_flag(ts, i, r, nightly) ==
    IF i = Len(ts) THEN ts
    ELSE LET t1 == SetReboot(ts, i + 1, FALSE)
             t2 == IF is_skip(r) THEN SetReboot(t1, i + 1, t1[i].should_reboot) ELSE t1
         IN  IF is_fail(r) \/ nightly \/ bootloader_apps(t2[i + 1])
             THEN SetReboot(t2, i + 1, TRUE)
             ELSE t2

----------------------------------------------------------------------------
(* run(), lines 162-166 *)

VerdictNoSkips(fails, skips) == IF fails = 0 /\ skips = 0 THEN "True" ELSE "False"

Verdict(fails, skips) == IF fails = 0 THEN "True" ELSE "False"

FinalState(r) ==
    CASE r = "FAIL" -> "FAILED"
      [] r = "SKIP" -> "SKIPPED"
      [] OTHER -> "PASSED"

----------------------------------------------------------------------------
(* search_for_tests, lines 32-53. A path is what the filesystem says about *)
(* it: a directory with the files below it, a file with its name, or       *)
(* nothing. A file name is a stem and a suffix.                            *)

\* Longest list of input paths explored.
MaxPaths == 2

\* Longest descriptor list the parser returns in SpecDiscovery.
MaxParsed == 1

FileNames == [stem : {"test_a", "conf"}, suffix : {".yaml", ".yml", ".txt"}]

NoName == [stem |-> "", suffix |-> ""]

TestYaml == [stem |-> "test_a", suffix |-> ".yaml"]

TestYml == [stem |-> "test_a", suffix |-> ".yml"]

\* The directory contents explored.
Listings ==
    { {}, {[stem |-> "conf", suffix |-> ".yaml"]}, {[stem |-> "test_a", suffix |-> ".txt"]},
      {TestYaml}, {TestYml}, {TestYaml, TestYml} }

Paths ==
    {[kind |-> "dir", files |-> l, name |-> NoName] : l \in Listings}
        \cup {[kind |-> "file", files |-> {}, name |-> n] : n \in FileNames}
        \cup {[kind |-> "missing", files |-> {}, name |-> NoName]}

is_dir(p) == p.kind = "dir"

is_file(p) == p.kind = "file"

\* fnmatch of a name against "test*" + suffix
matches_test(n, suffix) == n.stem \in {"test_a"} /\ n.suffix = suffix

RECURSIVE SeqOf(_)
\* the elements of a set in traversal order
SeqOf(S) == IF S = {} THEN <<>> ELSE LET x == CHOOSE y \in S : TRUE IN <<x>> \o SeqOf(S \ {x})

\* list(path.rglob("test*" + suffix))
rglob(p, suffix) == SeqOf({n \in p.files : matches_test(n, suffix)})

\* lines 41-42 missing: an empty match is accepted
path_yamls_no_empty_check(p) ==
    IF is_dir(p)
    THEN [error |-> "none", yamls |-> rglob(p, ".yaml") \o rglob(p, ".yml")]
    ELSE IF is_file(p)
    THEN IF p.name.suffix # ".yaml" /\ p.name.suffix # ".yml"
         THEN [error |-> "must be a file with .yaml or .yml extension", yamls |-> <<>>]
         ELSE [error |-> "none", yamls |-> <<p.name>>]
    ELSE [error |-> "neither a directory nor a file", yamls |-> <<>>]

\* lines 37-49: the yamls of one input path, or the ValueError raised for it
path_yamls(p) ==
    IF is_dir(p)
    THEN LET yamls == rglob(p, ".yaml") \o rglob(p, ".yml")
         IN  IF yamls = <<>>
             THEN [error |-> "does not contain .yaml test configuration", yamls |-> <<>>]
             ELSE [error |-> "none", yamls |-> yamls]
    ELSE IF is_file(p)
    THEN IF p.name.suffix # ".yaml" /\ p.name.suffix # ".yml"
         THEN [error |-> "must be a file with .yaml or .yml extension", yamls |-> <<>>]
         ELSE [error |-> "none", yamls |-> <<p.name>>]
    ELSE [error |-> "neither a directory nor a file", yamls |-> <<>>]

RECURSIVE search_from(_, _, _)
\* lines 36-53: the loop from the k-th input path on, with the paths collected so far
search_from(ps, k, paths) ==
    IF k > Len(ps) THEN [error |-> "none", paths |-> paths]
    ELSE LET r == path_yamls(ps[k])
         IN  IF r.error # "none"
             THEN [error |-> r.error, paths |-> <<>>]
             ELSE search_from(ps, k + 1,
                              paths \o [j \in 1..Len(r.yamls) |-> [from |-> k, name |-> r.yamls[j]]])

search_for_tests(ps) == search_from(ps, 1, <<>>)

\* The input of Spec, which explores the campaign after a successful parse.
OnePath == <<[kind |-> "file", files |-> {}, name |-> TestYaml]>>

\* What ConfigParser.parse may return in SpecDiscovery (the parser is external).
ParsedOptions == {t \in TestOptions : t.bootloader = "None" /\ t.should_reboot}

----------------------------------------------------------------------------
(* psh/tools/login.py. The session p is a pexpect session: p.send writes a *)
(* line, p.expect_exact([pattern, TIMEOUT]) reads what the session prints  *)
(* until the pattern is in it (index 0, the text up to the match is        *)
(* consumed) or the timeout passes (index 1, TIMEOUT, nothing consumed).   *)
(* What the session prints is a sequence of tokens.                        *)

\* Most tokens a session prints during one helper call.
MaxEmit == 3

Helpers == {"log_in", "assert_login", "assert_login_fail", "assert_login_empty"}

Logins == {"", "root"}

Passwords == {"secret"}

Credentials == [login : Logins, passwd : Passwords]

Tokens == {"Login:", "Password:", "(psh)% ", "root"}

\* the prompt assert_prompt and assert_prompt_fail wait for
Prompt == "(psh)% "

RECURSIVE Chunks(_)
\* the token sequences of length n
Chunks(n) ==
    IF n = 0 THEN {<<>>} ELSE {Append(c, t) : c \in Chunks(n - 1), t \in Tokens}

\* the behaviours of a session: what it prints during each of the three waits
Sessions ==
    UNION { {<<x, y, z>> : x \in Chunks(t[1]), y \in Chunks(t[2]), z \in Chunks(t[3])} :
            t \in {u \in (0..MaxEmit) \X (0..MaxEmit) \X (0..MaxEmit) :
                     u[1] + u[2] + u[3] <= MaxEmit} }

\* position of the first occurrence of the pattern in the data, 0 without one
Find(data, pattern) ==
    IF \E j \in 1..Len(data) : data[j] = pattern
    THEN CHOOSE j \in 1..Len(data) :
             data[j] = pattern /\ \A i \in 1..(j - 1) : data[i] # pattern
    ELSE 0

\* p.expect_exact([pattern, pexpect.TIMEOUT]) on the data available before the
\* timeout; the empty pattern matches at once and consumes nothing
expect_exact(data, pattern) ==
    IF pattern = "" THEN [index |-> 0, rest |-> data]
    ELSE IF Find(data, pattern) > 0
    THEN [index |-> 0, rest |-> SubSeq(data, Find(data, pattern) + 1, Len(data))]
    ELSE [index |-> 1, rest |-> data]

\* number of p.expect_exact calls made so far
Waited == Cardinality({j \in 1..Len(log) : log[j].op = "expect"})

\* the data the next wait sees
Available == buffer \o session[Waited + 1]

Sent(text) == [op |-> "send", arg |-> text, index |-> 0]

Expected(pattern, index) == [op |-> "expect", arg |-> pattern, index |-> index]

\* `assert` left out: the index is not checked
assert_removed(index) == TRUE

\* `assert` checks the wrong index
assert_wrong_index(index) == index = 1

\* `assert p.expect_exact([...]) == 0`, lines 28, 29 and 45
asserted(index) == index = 0

\* both helpers call assert_prompt
prompt_check_same(h) == "assert_prompt"

\* lines 35 and 40: the check of psh.tools.basic the helper calls after log_in
prompt_check(h) == IF h = "assert_login" THEN "assert_prompt" ELSE "assert_prompt_fail"

\* psh.tools.basic.assert_prompt / assert_prompt_fail: the index they require
prompt_asserted(check, index) ==
    IF check = "assert_prompt" THEN index = 0 ELSE index = 1

\* the messages of lines 35 and 40
prompt_message(h) ==
    IF h = "assert_login" THEN "Login should pass but failed"
    ELSE "Login should fail but passed"

LoginIdle ==
    /\ helper = "none"
    /\ cred = [login |-> "", passwd |-> ""]
    /\ lpc = "idle"
    /\ log = <<>>
    /\ buffer = <<>>
    /\ session = <<>>
    /\ raised = "none"

----------------------------------------------------------------------------
(* Initial states: a constructed TestRunner whose run() has parsed the     *)
(* descriptors. Every descriptor starts with the same should_reboot (the   *)
(* TestOptions default), which may be either value.                        *)

Init ==
    /\ ctx \in RunContext
    /\ \E n \in 0..MaxTests, d \in BOOLEAN :
         tests \in {t \in [1..n -> TestOptions] : \A i \in 1..n : t[i].should_reboot = d}
    /\ pc = "run"
    /\ idx = 0
    /\ result = "none"
    /\ outcome = "none"
    /\ fail = 0
    /\ skip = 0
    /\ state = [i \in 1..Len(tests) |-> "PENDING"]
    /\ built = [i \in 1..Len(tests) |-> 0]
    /\ invoked = [i \in 1..Len(tests) |-> 0]
    /\ rebooted = {}
    /\ wrote = {}
    /\ flashed = "none"
    /\ summary = <<>>
    /\ ret = "none"
    /\ msg = NewMsg
    /\ LoginIdle
    /\ test_paths = OnePath
    /\ found = search_for_tests(OnePath).paths

----------------------------------------------------------------------------
(* run(), lines 153-154, and flash() *)

flash ==
    /\ pc = "run"
    /\ ctx.should_flash
    /\ \E o \in FlashOutcomes :
         /\ flashed' = o
         /\ IF FlashExits(o)
            THEN pc' = "exit" /\ ret' = "exit1"
            ELSE pc' = "flashed" /\ ret' = ret
    /\ UNCHANGED <<login_vars, discovery_vars, msg, ctx, tests, idx, result, outcome, fail, skip, state, built, invoked,
                   rebooted, wrote, summary>>

no_flash ==
    /\ pc = "run"
    /\ ~ctx.should_flash
    /\ pc' = "flashed"
    /\ UNCHANGED <<login_vars, discovery_vars, msg, ctx, tests, idx, result, outcome, fail, skip, state, built, invoked,
                   rebooted, wrote, flashed, summary, ret>>

(* run(), lines 156-157 *)
return_without_testing ==
    /\ pc = "flashed"
    /\ ~testing_requested(ctx)
    /\ pc' = "returned"
    /\ ret' = "True"
    /\ UNCHANGED <<login_vars, discovery_vars, msg, ctx, tests, idx, result, outcome, fail, skip, state, built, invoked,
                   rebooted, wrote, flashed, summary>>

(* run(), lines 159-161, and run_tests, line 91 *)
begin_tests ==
    /\ pc = "flashed"
    /\ testing_requested(ctx)
    /\ pc' = "loop"
    /\ idx' = 1
    /\ fail' = 0
    /\ skip' = 0
    /\ UNCHANGED <<login_vars, discovery_vars, msg, ctx, tests, result, outcome, state, built, invoked, rebooted, wrote,
                   flashed, summary, ret>>

----------------------------------------------------------------------------
(* run_tests, one iteration *)

(* lines 93-98: an ignored test *)
skip_test ==
    /\ pc = "loop"
    /\ idx <= Len(tests)
    /\ ignored(tests[idx])
    /\ result' = "SKIP"
    /\ msg' = NewMsg
    /\ state' = [state EXCEPT ![idx] = "SKIPPED"]
    /\ pc' = "result"
    /\ UNCHANGED <<login_vars, discovery_vars, ctx, tests, idx, outcome, fail, skip, built, invoked, rebooted, wrote, flashed,
                   summary, ret>>

(* lines 93-101: harness = self.target.build_test(test) *)
build_test ==
    /\ pc = "loop"
    /\ idx <= Len(tests)
    /\ ~ignored(tests[idx])
    /\ result' = NewResult
    /\ msg' = NewMsg
    /\ built' = [built EXCEPT ![idx] = @ + 1]
    /\ rebooted' = IF tests[idx].should_reboot THEN rebooted \cup {idx} ELSE rebooted
    /\ state' = [state EXCEPT ![idx] = "RUNNING"]
    /\ pc' = "harness"
    /\ UNCHANGED <<login_vars, discovery_vars, ctx, tests, idx, outcome, fail, skip, invoked, wrote, flashed, summary,
                   ret>>

(* lines 103-110: result = harness(), the except clause and the None check *)
harness ==
    /\ pc = "harness"
    /\ \E o \in HarnessOutcomes :
         /\ outcome' = o
         /\ invoked' = [invoked EXCEPT ![idx] = @ + 1]
         /\ IF HarnessResult(o) = "RAISED"
            THEN /\ pc' = "raised"
                 /\ UNCHANGED <<result, msg, state>>
            ELSE /\ result' = HarnessResult(o)
                 /\ msg' = HarnessMsg(o)
                 /\ state' = [state EXCEPT ![idx] = FinalState(HarnessResult(o))]
                 /\ pc' = "result"
    /\ UNCHANGED <<login_vars, discovery_vars, ctx, tests, idx, fail, skip, built, rebooted, wrote, flashed, summary,
                   ret>>

(* lines 112-141: print, count, set_reboot_flag, next iteration *)
record_result ==
    /\ pc = "result"
    /\ fail' = CountResult(fail, skip, result)[1]
    /\ skip' = CountResult(fail, skip, result)[2]
    /\ tests' = set_reboot_flag(tests, idx, result, ctx.nightly)
    /\ wrote' = IF idx = Len(tests) THEN wrote ELSE wrote \cup {idx + 1}
    /\ idx' = next_idx(idx)
    /\ pc' = "loop"
    /\ UNCHANGED <<login_vars, discovery_vars, msg, ctx, result, outcome, state, built, invoked, rebooted, flashed,
                   summary, ret>>

(* run_tests, line 143, and run(), lines 161-166 *)
finish ==
    /\ pc = "loop"
    /\ idx > Len(tests)
    /\ summary' = <<[total |-> Len(tests), passed |-> Len(tests) - fail - skip,
                     failed |-> fail, skipped |-> skip]>>
    /\ ret' = Verdict(fail, skip)
    /\ pc' = "returned"
    /\ UNCHANGED <<login_vars, discovery_vars, msg, ctx, tests, idx, result, outcome, fail, skip, state, built, invoked,
                   rebooted, wrote, flashed>>

----------------------------------------------------------------------------
(* run() from its first line: parse_tests and search_for_tests *)

InitDiscovery ==
    /\ ctx \in RunContext
    /\ \E n \in 0..MaxPaths : test_paths \in [1..n -> Paths]
    /\ found = <<>>
    /\ tests = <<>>
    /\ pc = "parse"
    /\ idx = 0
    /\ result = "none"
    /\ outcome = "none"
    /\ fail = 0
    /\ skip = 0
    /\ state = <<>>
    /\ built = <<>>
    /\ invoked = <<>>
    /\ rebooted = {}
    /\ wrote = {}
    /\ flashed = "none"
    /\ summary = <<>>
    /\ ret = "none"
    /\ msg = NewMsg
    /\ LoginIdle

(* run(), line 151, and parse_tests, lines 55-65 *)
parse_tests ==
    /\ pc = "parse"
    /\ LET r == search_for_tests(test_paths)
       IN  IF r.error # "none"
           THEN /\ pc' = "discovery_error"
                /\ ret' = "ValueError"
                /\ UNCHANGED <<found, tests, state, built, invoked>>
           ELSE /\ found' = r.paths
                /\ \E n \in 0..(IF r.paths = <<>> THEN 0 ELSE MaxParsed) :
                     tests' \in [1..n -> ParsedOptions]
                /\ state' = [i \in 1..Len(tests') |-> "PENDING"]
                /\ built' = [i \in 1..Len(tests') |-> 0]
                /\ invoked' = [i \in 1..Len(tests') |-> 0]
                /\ pc' = "run"
                /\ ret' = ret
    /\ UNCHANGED <<login_vars, ctx, test_paths, idx, result, outcome, fail, skip, rebooted,
                   wrote, flashed, summary, msg>>

Next ==
    \/ flash
    \/ no_flash
    \/ return_without_testing
    \/ begin_tests
    \/ skip_test
    \/ build_test
    \/ harness
    \/ record_result
    \/ finish

Spec == Init /\ [][Next]_vars

NextDiscovery == parse_tests \/ Next

SpecDiscovery == InitDiscovery /\ [][NextDiscovery]_vars

----------------------------------------------------------------------------
(* One call of a login helper. The runner is not part of this              *)
(* specification: its variables keep the values below.                     *)

RunnerIdle ==
    /\ ctx = [should_flash |-> FALSE, should_test |-> FALSE, nightly |-> FALSE]
    /\ tests = <<>>
    /\ pc = "idle"
    /\ idx = 0
    /\ result = "none"
    /\ outcome = "none"
    /\ fail = 0
    /\ skip = 0
    /\ state = <<>>
    /\ built = <<>>
    /\ invoked = <<>>
    /\ rebooted = {}
    /\ wrote = {}
    /\ flashed = "none"
    /\ summary = <<>>
    /\ ret = "none"
    /\ msg = NewMsg
    /\ test_paths = <<>>
    /\ found = <<>>

InitLogin ==
    /\ RunnerIdle
    /\ helper \in Helpers
    /\ cred \in Credentials
    /\ session \in Sessions
    /\ buffer \in {<<>>, <<"Login:">>}
    /\ lpc = "call"
    /\ log = <<>>
    /\ raised = "none"

(* log_in, line 27 *)
send_login ==
    /\ lpc = "call"
    /\ helper # "assert_login_empty"
    /\ log' = Append(log, Sent(cred.login))
    /\ lpc' = "expect_login"
    /\ UNCHANGED <<runner_vars, helper, cred, buffer, session, raised>>

(* log_in, line 28 *)
expect_login ==
    /\ lpc = "expect_login"
    /\ LET r == expect_exact(Available, cred.login)
       IN  /\ log' = Append(log, Expected(cred.login, r.index))
           /\ buffer' = r.rest
           /\ IF asserted(r.index)
              THEN lpc' = "expect_password" /\ raised' = raised
              ELSE lpc' = "failed" /\ raised' = "Cannot enter login to login prompt"
    /\ UNCHANGED <<runner_vars, helper, cred, session>>

(* log_in, line 29 *)
expect_password ==
    /\ lpc = "expect_password"
    /\ LET r == expect_exact(Available, "Password:")
       IN  /\ log' = Append(log, Expected("Password:", r.index))
           /\ buffer' = r.rest
           /\ IF asserted(r.index)
              THEN lpc' = "send_password" /\ raised' = raised
              ELSE lpc' = "failed" /\ raised' = "AssertionError"
    /\ UNCHANGED <<runner_vars, helper, cred, session>>

(* log_in, line 30, and the return to the caller *)
send_password ==
    /\ lpc = "send_password"
    /\ log' = Append(log, Sent(cred.passwd))
    /\ lpc' = IF helper = "log_in" THEN "returned" ELSE "prompt"
    /\ UNCHANGED <<runner_vars, helper, cred, buffer, session, raised>>

(* assert_login, line 35, and assert_login_fail, line 40 *)
check_prompt ==
    /\ lpc = "prompt"
    /\ LET r == expect_exact(Available, Prompt)
       IN  /\ log' = Append(log, Expected(Prompt, r.index))
           /\ buffer' = r.rest
           /\ IF prompt_asserted(prompt_check(helper), r.index)
              THEN lpc' = "returned" /\ raised' = raised
              ELSE lpc' = "failed" /\ raised' = prompt_message(helper)
    /\ UNCHANGED <<runner_vars, helper, cred, session>>

(* assert_login_empty, line 44 *)
send_empty_login ==
    /\ lpc = "call"
    /\ helper = "assert_login_empty"
    /\ log' = Append(log, Sent(cred.login))
    /\ lpc' = "expect_login_prompt"
    /\ UNCHANGED <<runner_vars, helper, cred, buffer, session, raised>>

(* assert_login_empty, line 45 *)
expect_login_prompt ==
    /\ lpc = "expect_login_prompt"
    /\ LET r == expect_exact(Available, "Login:")
       IN  /\ log' = Append(log, Expected("Login:", r.index))
           /\ buffer' = r.rest
           /\ IF asserted(r.index)
              THEN lpc' = "returned" /\ raised' = raised
              ELSE lpc' = "failed" /\ raised' = "Empty login doesn't repeat logging"
    /\ UNCHANGED <<runner_vars, helper, cred, session>>

NextLogin ==
    \/ send_login
    \/ expect_login
    \/ expect_password
    \/ send_password
    \/ check_prompt
    \/ send_empty_login
    \/ expect_login_prompt

SpecLogin == InitLogin /\ [][NextLogin]_vars

----------------------------------------------------------------------------
TypeOK ==
    /\ ctx \in RunContext
    /\ Len(tests) <= MaxTests
    /\ \A i \in 1..Len(tests) : tests[i] \in TestOptions
    /\ pc \in {"parse", "discovery_error", "run", "flashed", "loop", "harness", "result",
             "returned", "exit", "raised"}
    /\ idx \in 0..(Len(tests) + 1)
    /\ result \in {"none", "OK", "FAIL", "SKIP"}
    /\ outcome \in HarnessOutcomes \cup {"none"}
    /\ ret \in {"none", "True", "False", "exit1", "ValueError"}

----------------------------------------------------------------------------
(* Properties *)

Indices == 1..Len(tests)

\* Test i went through the whole iteration, set_reboot_flag included.
Processed(i) == i \in Indices /\ i < idx

\* Test i is processed and another descriptor follows it.
Pair(i) == Processed(i) /\ i < Len(tests)

Terminal == {"SKIPPED", "PASSED", "FAILED"}

NumberOf(s) == Cardinality({i \in Indices : state[i] = s})

FlashFailed == flashed \in {"FlashError", "HarnessError"}

\* C1: after a test whose result is FAIL (returned by the harness or made from
\* a raised HarnessError) the next descriptor has should_reboot = True, from the
\* end of the iteration on and in particular when it is built, whatever nightly,
\* its bootloader and the flag's earlier value are.
C1_FailForcesReboot ==
    \A i \in Indices :
        Pair(i) /\ state[i] = "FAILED" =>
            /\ tests[i + 1].should_reboot
            /\ built[i + 1] > 0 => (i + 1) \in rebooted

C1_Witness ==
    /\ pc = "harness"
    /\ idx = 2
    /\ outcome = "HarnessError"
    /\ state[1] = "FAILED"
    /\ invoked[1] = 1
    /\ ~ctx.nightly
    /\ tests[2].bootloader = "None"
    /\ 2 \in rebooted

\* C2 as stated: when test i did not FAIL, the campaign is not nightly and the
\* next test needs no bootloader apps, the next should_reboot is False.
C2_DefaultRuleAsStated ==
    \A i \in Indices :
        Pair(i) /\ state[i] # "FAILED" /\ ~ctx.nightly /\ ~bootloader_apps(tests[i + 1]) =>
            tests[i + 1].should_reboot = FALSE

\* C2 amended: under the same three conditions the next should_reboot is False
\* when the result of test i is OK, and is the should_reboot of test i when the
\* result is SKIP.
C2_DefaultRule ==
    \A i \in Indices :
        Pair(i) /\ state[i] # "FAILED" /\ ~ctx.nightly /\ ~bootloader_apps(tests[i + 1]) =>
            tests[i + 1].should_reboot = (state[i] = "SKIPPED" /\ tests[i].should_reboot)

C2_Witness ==
    /\ Pair(1)
    /\ state[1] = "PASSED"
    /\ tests[1].should_reboot
    /\ ~ctx.nightly
    /\ ~bootloader_apps(tests[2])
    /\ ~tests[2].should_reboot

\* C3: after a test whose result is SKIP the next should_reboot equals the
\* skipped test's own should_reboot, unless the campaign is nightly or the next
\* test has non-empty bootloader apps, in which case it is True.
C3_SkipPropagation ==
    \A i \in Indices :
        Pair(i) /\ state[i] = "SKIPPED" =>
            tests[i + 1].should_reboot =
                IF ctx.nightly \/ bootloader_apps(tests[i + 1])
                THEN TRUE
                ELSE tests[i].should_reboot

C3_Witness ==
    /\ Pair(1)
    /\ tests[1].ignore
    /\ state[1] = "SKIPPED"
    /\ tests[1].should_reboot
    /\ ~ctx.nightly
    /\ ~bootloader_apps(tests[2])
    /\ tests[2].should_reboot

\* C4: in nightly mode the next should_reboot is True after every processed
\* test, whatever its result.
C4_NightlyAlwaysReboots ==
    ctx.nightly => \A i \in Indices : Pair(i) => tests[i + 1].should_reboot

C4_Witness ==
    /\ ctx.nightly
    /\ Pair(2)
    /\ state[1] = "SKIPPED"
    /\ ~tests[1].should_reboot
    /\ state[2] = "PASSED"
    /\ ~bootloader_apps(tests[2])
    /\ ~bootloader_apps(tests[3])
    /\ tests[2].should_reboot
    /\ tests[3].should_reboot

\* C5: a next test with non-empty bootloader apps has should_reboot = True after
\* the iteration before it, for every result of that iteration, a skipped test
\* carrying should_reboot = False included.
C5_BootloaderAppsReboot ==
    \A i \in Indices :
        Pair(i) /\ bootloader_apps(tests[i + 1]) => tests[i + 1].should_reboot

C5_Witness ==
    /\ Pair(1)
    /\ state[1] = "SKIPPED"
    /\ ~tests[1].should_reboot
    /\ ~ctx.nightly
    /\ bootloader_apps(tests[2])
    /\ tests[2].should_reboot

\* C6: the campaign stops only after run() returned, with every descriptor
\* SKIPPED, PASSED or FAILED when testing was requested, or after a failed flash;
\* no exception leaves run_tests and every descriptor before the current one has
\* reached a final state.
C6_FailureIsolation ==
    /\ pc # "raised"
    /\ ~ENABLED Next => \/ pc = "returned"
                        \/ pc = "exit" /\ FlashFailed
    /\ pc = "exit" => FlashFailed
    /\ pc = "returned" /\ ctx.should_test =>
           \A i \in Indices : state[i] \in Terminal
    /\ \A i \in Indices : Processed(i) => state[i] \in Terminal

C6_Witness ==
    /\ pc = "returned"
    /\ Len(tests) = 3
    /\ state[1] = "FAILED"
    /\ state[2] = "FAILED"
    /\ state[3] = "PASSED"
    /\ invoked[3] = 1

\* C7: a descriptor with ignore = true is never built and its harness never
\* called; its iteration adds one to the skip count and leaves the fail count
\* (and with it the derived pass count) alone.
C7_IgnoredNeverBuilt ==
    /\ [](\A i \in Indices :
            tests[i].ignore => /\ built[i] = 0
                               /\ invoked[i] = 0
                               /\ state[i] \in {"PENDING", "SKIPPED"})
    /\ [][pc = "result" /\ tests[idx].ignore =>
            /\ skip' = skip + 1
            /\ fail' = fail
            /\ built' = built
            /\ invoked' = invoked]_vars

C7_Witness ==
    /\ pc = "returned"
    /\ Len(tests) = 2
    /\ tests[1].ignore
    /\ ~tests[2].ignore
    /\ state[1] = "SKIPPED"
    /\ state[2] = "PASSED"
    /\ skip = 1
    /\ fail = 0
    /\ built[1] = 0

\* C8: the summary of run() has passed + failed + skipped = total, with failed,
\* skipped and passed the numbers of tests that ended FAIL, SKIP and OK.
C8_CountConsistency ==
    /\ \A k \in 1..Len(summary) :
        LET s == summary[k]
        IN  /\ s.total = Len(tests)
            /\ s.passed + s.failed + s.skipped = s.total
            /\ s.failed = NumberOf("FAILED")
            /\ s.skipped = NumberOf("SKIPPED")
            /\ s.passed = NumberOf("PASSED")
            /\ s.passed >= 0 /\ s.failed >= 0 /\ s.skipped >= 0
    /\ pc = "returned" /\ ctx.should_test => Len(summary) = 1

C8_Witness ==
    /\ Len(summary) = 1
    /\ summary[1].total = 3
    /\ summary[1].passed = 1
    /\ summary[1].failed = 1
    /\ summary[1].skipped = 1

\* C9: after a failed flash_dut the process has exited with status 1 and no test
\* was built or run and no should_reboot was written.
C9_FatalFlash ==
    FlashFailed =>
        /\ pc = "exit"
        /\ ret = "exit1"
        /\ ~ENABLED Next
        /\ wrote = {}
        /\ \A i \in Indices : built[i] = 0 /\ invoked[i] = 0 /\ state[i] = "PENDING"

C9_Witness ==
    /\ flashed = "HarnessError"
    /\ pc = "exit"
    /\ ctx.should_flash
    /\ ctx.should_test
    /\ Len(tests) = 2
    /\ ~tests[1].ignore

\* C10: when testing is requested and run() returns, it returns True exactly
\* when no test ended FAIL; skipped tests do not make it False.
C10_Verdict ==
    pc = "returned" /\ ctx.should_test =>
        /\ ret \in {"True", "False"}
        /\ ret = "True" <=> NumberOf("FAILED") = 0

C10_Witness ==
    /\ pc = "returned"
    /\ ctx.should_test
    /\ ctx.should_flash
    /\ flashed = "ok"
    /\ NumberOf("SKIPPED") = 2
    /\ NumberOf("PASSED") = 1
    /\ ret = "True"

\* C11: when should_test is False nothing is ever run: no build_test call, no
\* harness call, no should_reboot assignment and no descriptor changed, for every
\* descriptor list; once run() is past the flashing step it can only return, and it
\* returns True.
C11_FlashOnly ==
    /\ [](~ctx.should_test =>
            /\ wrote = {}
            /\ pc \in {"run", "flashed", "returned", "exit"}
            /\ \A i \in Indices : built[i] = 0 /\ invoked[i] = 0 /\ state[i] = "PENDING"
            /\ pc = "returned" => ret = "True" /\ summary = <<>>)
    /\ [][~ctx.should_test => tests' = tests]_vars
    /\ [][~ctx.should_test /\ pc = "flashed" => pc' = "returned"]_vars

C11_Witness ==
    /\ ~ctx.should_test
    /\ ctx.should_flash
    /\ flashed = "ok"
    /\ pc = "returned"
    /\ ret = "True"
    /\ Len(tests) = 2
    /\ ~tests[1].ignore
    /\ tests[1].should_reboot

\* An input path search_for_tests must reject: a directory without a test*.yaml or
\* test*.yml file, a file whose extension is neither .yaml nor .yml, a path that
\* does not exist.
BadPath(p) ==
    \/ p.kind = "dir" /\ ~\E n \in p.files : n.stem = "test_a" /\ n.suffix \in {".yaml", ".yml"}
    \/ p.kind = "file" /\ p.name.suffix \notin {".yaml", ".yml"}
    \/ p.kind = "missing"

\* C12: when one of the input paths is bad, run() ends with the discovery error
\* and flash_dut and build_test are never called, also with should_flash = True
\* and with valid paths before the bad one.
C12_DiscoveryBeforeDevice ==
    (\E k \in 1..Len(test_paths) : BadPath(test_paths[k])) =>
        /\ pc \in {"parse", "discovery_error"}
        /\ pc = "parse" => ENABLED parse_tests
        /\ pc = "discovery_error" => ret = "ValueError" /\ ~ENABLED NextDiscovery
        /\ flashed = "none"
        /\ tests = <<>>
        /\ \A i \in 1..Len(built) : built[i] = 0

C12_Witness ==
    /\ pc = "discovery_error"
    /\ ctx.should_flash
    /\ ctx.should_test
    /\ Len(test_paths) = 2
    /\ ~BadPath(test_paths[1])
    /\ test_paths[2].kind = "dir"
    /\ test_paths[2].files # {}
    /\ flashed = "none"

----------------------------------------------------------------------------
(* Properties of the login helpers (SpecLogin) *)

LoginDone == lpc \in {"returned", "failed"}

\* log_in ran to its end: both waits matched and the password was sent.
LogInCompleted ==
    /\ Len(log) >= 4
    /\ log[2] = Expected(cred.login, 0)
    /\ log[3] = Expected("Password:", 0)
    /\ log[4] = Sent(cred.passwd)

\* The index the wait for the prompt returns for a session, from what the session
\* prints alone: the output left over by the two waits of log_in, then the output
\* of the third wait.
PromptIndex(sess, login) ==
    LET r1 == expect_exact(sess[1], login)
        r2 == expect_exact(r1.rest \o sess[2], "Password:")
    IN  expect_exact(r2.rest \o sess[3], Prompt).index

\* C13: log_in sends the login, waits for the login, waits for "Password:" and
\* sends the password, in this order; the password is sent only after both waits
\* matched, and a wait that times out makes log_in fail without the password
\* being sent.
C13_LoginOrder ==
    helper \in {"log_in", "assert_login", "assert_login_fail"} =>
        /\ Len(log) >= 1 => log[1] = Sent(cred.login)
        /\ Len(log) >= 2 => log[2].op = "expect" /\ log[2].arg = cred.login
        /\ Len(log) >= 3 => log[3].op = "expect" /\ log[3].arg = "Password:" /\ log[2].index = 0
        /\ Len(log) >= 4 => log[4] = Sent(cred.passwd) /\ log[3].index = 0
        /\ \A j \in 1..Len(log) : log[j] = Sent(cred.passwd) => j = 4
        /\ \A j \in 2..3 :
               j <= Len(log) /\ log[j].index = 1 =>
                   lpc = "failed" /\ raised # "none" /\ Len(log) = j

C13_Witness ==
    /\ helper = "log_in"
    /\ cred.login = "root"
    /\ lpc = "failed"
    /\ Len(log) = 3
    /\ log[2].index = 0
    /\ log[3].index = 1
    /\ session[2] # <<>>

\* C14: assert_login_fail passes exactly when log_in completed and the wait for the
\* prompt timed out; it fails when the prompt appears and when log_in failed. The
\* wait for the prompt gives assert_login and assert_login_fail the same index for
\* the same session, and assert_login passes exactly on the other index, so the two
\* never both pass.
C14_LoginFailAssertsAbsence ==
    LoginDone /\ helper \in {"assert_login", "assert_login_fail"} =>
        /\ LogInCompleted =>
               /\ Len(log) = 5
               /\ log[5] = Expected(Prompt, PromptIndex(session, cred.login))
        /\ lpc = "returned" <=>
               /\ LogInCompleted
               /\ IF helper = "assert_login_fail"
                  THEN PromptIndex(session, cred.login) = 1
                  ELSE PromptIndex(session, cred.login) = 0
        /\ helper = "assert_login_fail" /\ LogInCompleted /\ log[5].index = 0 =>
               lpc = "failed" /\ raised = "Login should fail but passed"
        /\ ~LogInCompleted => lpc = "failed" /\ Len(log) <= 3

C14_Witness ==
    /\ helper = "assert_login_fail"
    /\ lpc = "returned"
    /\ cred.login = "root"
    /\ LogInCompleted
    /\ log[5] = Expected(Prompt, 1)
    /\ session[3] = <<"Login:">>

\* C20: a helper call is never stuck before it returned or raised, it makes at most
\* three waits, a wait that timed out is the last operation on the session (it is
\* not repeated), and a timeout ends the call with an AssertionError, except in
\* the wait for the prompt of assert_login_fail, where it makes the call pass.
C20_BoundedWaits ==
    /\ LoginDone \/ ENABLED NextLogin
    /\ Waited <= 3
    /\ Len(log) <= 5
    /\ LoginDone => (lpc = "failed" <=> raised # "none")
    /\ \A j \in 1..Len(log) :
           log[j].op = "expect" /\ log[j].index = 1 =>
               /\ j = Len(log)
               /\ LoginDone
               /\ lpc = "returned" <=> helper = "assert_login_fail" /\ j = 5

C20_Witness ==
    /\ session = <<<<>>, <<>>, <<>>>>
    /\ buffer = <<>>
    /\ helper = "assert_login_empty"
    /\ lpc = "failed"
    /\ log = <<Sent(cred.login), Expected("Login:", 1)>>

----------------------------------------------------------------------------
(* Further properties of the campaign (Spec) *)

Running == {i \in Indices : state[i] = "RUNNING"}

\* C15: test i + 1 is built and run only after test i reached its final state and
\* set_reboot_flag wrote tests[i + 1].should_reboot for it; the descriptors are
\* taken in list order, each built and run at most once (exactly once when not
\* ignored and run() returned), and at most one harness runs at a time.
C15_SequentialOrder ==
    /\ Cardinality(Running) <= 1
    /\ \A i \in Indices :
        /\ built[i] <= 1
        /\ invoked[i] <= built[i]
        /\ state[i] # "PENDING" => i <= idx /\ \A j \in 1..(i - 1) : state[j] \in Terminal
        /\ i \in wrote => i > 1 /\ state[i - 1] \in Terminal
        /\ i > 1 /\ state[i] # "PENDING" => Processed(i - 1) /\ i \in wrote
        /\ pc = "returned" /\ ctx.should_test /\ ~tests[i].ignore =>
               built[i] = 1 /\ invoked[i] = 1
    /\ pc \in {"harness"} => Running = {idx}
    /\ pc \notin {"harness"} => Running = {}

C15_Witness ==
    /\ pc = "harness"
    /\ idx = 2
    /\ Len(tests) = 3
    /\ state = <<"PASSED", "RUNNING", "PENDING">>
    /\ built = <<1, 1, 0>>
    /\ invoked = <<1, 0, 0>>
    /\ wrote = {2}

\* C16: when the harness of a test raises HarnessError the result is FAIL with
\* str(e) as its message, the iteration adds one to fail and nothing to skip,
\* set_reboot_flag still runs and sets should_reboot of the next descriptor to
\* True, and the loop goes on with the next index.
C16_HarnessErrorRecovery ==
    /\ [][pc = "harness" /\ pc' # "harness" /\ outcome' = "HarnessError" =>
            /\ pc' = "result"
            /\ result' = "FAIL"
            /\ msg' = "str(e)"
            /\ state'[idx] = "FAILED"]_vars
    /\ [][pc = "result" /\ pc' # "result" /\ invoked[idx] = 1 /\ outcome = "HarnessError" =>
            /\ fail' = fail + 1
            /\ skip' = skip
            /\ pc' = "loop"
            /\ idx' = idx + 1
            /\ idx < Len(tests) =>
                   tests'[idx + 1].should_reboot /\ (idx + 1) \in wrote']_vars
    /\ [](pc = "loop" => ENABLED (skip_test \/ build_test \/ finish))

C16_Witness ==
    /\ pc = "loop"
    /\ idx = 2
    /\ Len(tests) = 2
    /\ invoked[1] = 1
    /\ outcome = "HarnessError"
    /\ result = "FAIL"
    /\ msg = "str(e)"
    /\ fail = 1
    /\ skip = 0
    /\ ~ctx.nightly
    /\ tests[2].bootloader = "apps_empty"
    /\ tests[2].should_reboot

\* C17 as stated: a test whose result is SKIP was never built and its harness was
\* never called; SKIP comes only from ignore = true.
C17_SkipMeansNeverRun ==
    \A i \in Indices :
        state[i] = "SKIPPED" => tests[i].ignore /\ built[i] = 0 /\ invoked[i] = 0

\* C18: a harness that returns None leaves run_tests in the state a harness that
\* returns an OK result without message leaves it in: status OK, empty message,
\* test PASSED; the iteration then counts nothing and sets the next should_reboot
\* as for an OK result, and a campaign whose last harness returned None has the
\* verdict of its FAIL count.
C18_NoneIsOk ==
    /\ [][pc = "harness" /\ pc' # "harness" /\ outcome' = "None" =>
            /\ pc' = "result"
            /\ result' = HarnessResult("OK")
            /\ result' = "OK"
            /\ msg' = HarnessMsg("OK")
            /\ state' = [state EXCEPT ![idx] = FinalState(HarnessResult("OK"))]
            /\ state'[idx] = "PASSED"]_vars
    /\ [][pc = "result" /\ pc' # "result" /\ invoked[idx] = 1 /\ outcome = "None" =>
            /\ fail' = fail
            /\ skip' = skip
            /\ tests' = set_reboot_flag(tests, idx, "OK", ctx.nightly)
            /\ idx < Len(tests) =>
                   tests'[idx + 1].should_reboot =
                       (ctx.nightly \/ bootloader_apps(tests[idx + 1]))]_vars
    /\ [](pc = "returned" /\ ctx.should_test /\ outcome = "None" =>
            /\ summary[1].passed = NumberOf("PASSED")
            /\ ret = "True" <=> NumberOf("FAILED") = 0)

C18_Witness ==
    /\ pc = "returned"
    /\ outcome = "None"
    /\ Len(tests) = 2
    /\ state = <<"PASSED", "PASSED">>
    /\ invoked = <<1, 1>>
    /\ tests[1].should_reboot
    /\ ~tests[2].should_reboot
    /\ summary[1].passed = 2
    /\ ret = "True"

\* C19: when test i ended FAIL and the tests after it up to j - 1 are ignored and
\* skipped, every one of them and test j carry should_reboot = True once the test
\* before is processed, and test j is built with should_reboot = True, whatever
\* nightly and the bootloaders are.
C19_RebootSurvivesSkips ==
    \A i \in Indices : \A j \in Indices :
        /\ i < j
        /\ state[i] = "FAILED"
        /\ \A k \in (i + 1)..(j - 1) : tests[k].ignore /\ state[k] = "SKIPPED"
        /\ Processed(j - 1)
        => /\ \A k \in (i + 1)..j : tests[k].should_reboot
           /\ built[j] > 0 => j \in rebooted

C19_Witness ==
    /\ Len(tests) = 3
    /\ state[1] = "FAILED"
    /\ ~tests[1].should_reboot
    /\ tests[2].ignore
    /\ state[2] = "SKIPPED"
    /\ ~ctx.nightly
    /\ tests[2].bootloader = "None"
    /\ tests[3].bootloader = "None"
    /\ built[3] = 1
    /\ 3 \in rebooted

====
